---- MODULE Spec2Model ----
(***************************************************************************)
(* graph.py: amplitude modulation of a sinusoidal baseband signal over a   *)
(* sinusoidal carrier, its envelope, three figures and a console summary.  *)
(*                                                                         *)
(* The script is a straight line of statements; the model has one action   *)
(* per statement group and a program counter pc.  The literals of lines    *)
(* 8-20 are the run's parameters: Init draws them from small sets.         *)
(*                                                                         *)
(* Numbers.  Floating point is modelled as fixed point:                    *)
(*   - amplitudes and signal values are integers;                          *)
(*   - a sine value, a ratio (modulation_index, f_m, f_c, 2.0/N) is held   *)
(*     in hundredths (Unit = 1.0);                                         *)
(*   - angles are held in twelfths of a turn (Pi = 6), so that np.sin is   *)
(*     the table of sin(k*pi/6) rounded to hundredths;                     *)
(*   - time is held in milliseconds (duration 0.1 s = 100);                *)
(*   - a product is rounded down to the resolution (Mul), as a float       *)
(*     product is rounded to 53 bits;                                      *)
(*   - a frequency of fftfreq is the exact fraction num/den, den = n*d;    *)
(*     den = 0 stands for numpy's nan/inf.                                 *)
(***************************************************************************)
EXTENDS Integers, Sequences, FiniteSets, TLC

VARIABLES
    pc,                 \* the statement group about to run
    exc,                \* the exception that ended the run, "none" if none
    bound,              \* the names assigned so far (the module namespace)
    E_m, E_c, omega_m, omega_c, duration, samples,
    f_m, f_c, modulation_index,
    t, baseband_signal, carrier_signal, modulated_signal,
    upper_envelope, lower_envelope,
    zoom_mask,
    N, T, frequencies, modulated_fft, modulated_magnitude,
    figures,            \* what plt.show() has displayed, in order
    console             \* what print() has written, in order

params  == <<E_m, E_c, omega_m, omega_c, duration, samples>>
scalars == <<f_m, f_c, modulation_index>>
signals == <<t, baseband_signal, carrier_signal, modulated_signal,
             upper_envelope, lower_envelope>>
spectrum == <<N, T, frequencies, modulated_fft, modulated_magnitude>>
outputs == <<figures, console>>
vars == <<pc, exc, bound, params, scalars, signals, zoom_mask, spectrum, outputs>>

(***************************************************************************)
(* Bounds and parameter sets                                               *)
(***************************************************************************)
MaxSamples == 5

Unit == 100
Pi == 6
ZoomDuration == 20

ValidE_m      == {100, 200}
ValidE_c      == {100, 150}
ValidOmega_m  == {1, 2}
ValidOmega_c  == {3, 5}
ValidDuration == {60, 100}
ValidSamples  == 2..MaxSamples

AnyE_m      == ValidE_m \cup {0, -100}
AnyE_c      == ValidE_c \cup {0, -150}
AnyOmega_m  == ValidOmega_m \cup {0}
AnyOmega_c  == ValidOmega_c \cup {-3}
AnyDuration == ValidDuration \cup {0, -100}
AnySamples  == (-1)..MaxSamples

(***************************************************************************)
(* Arithmetic                                                              *)
(***************************************************************************)
Abs(x) == IF x < 0 THEN -x ELSE x

Min(a, b) == IF a < b THEN a ELSE b

\* a * s for a sine value or ratio s held in hundredths
Mul(a, s) == (a * s) \div Unit

\* a / b as a ratio in hundredths (b # 0)
Div(a, b) == IF b > 0 THEN (a * Unit) \div b ELSE (-(a * Unit)) \div (-b)

\* sin(k*pi/6), k = 0..11, in hundredths
SinTable == <<0, 50, 87, 100, 87, 50, 0, -50, -87, -100, -87, -50>>

Sin(x) == SinTable[(x % (2 * Pi)) + 1]

Cos(x) == Sin(x + Pi \div 2)

RECURSIVE SqrtBetween(_, _, _)
SqrtBetween(lo, hi, v) ==
    IF lo >= hi THEN lo
    ELSE LET mid == (lo + hi + 1) \div 2
         IN  IF mid * mid <= v THEN SqrtBetween(mid, hi, v)
                               ELSE SqrtBetween(lo, mid - 1, v)

Sqrt(v) == SqrtBetween(0, Min(v, 46340), v)

(***************************************************************************)
(* Array operations                                                        *)
(***************************************************************************)
\* arr[:n] for n >= 0
Take(arr, n) == SubSeq(arr, 1, Min(n, Len(arr)))

\* arr[mask]
RECURSIVE Masked(_, _)
Masked(arr, mask) ==
    IF arr = <<>> THEN <<>>
    ELSE (IF Head(mask) THEN <<Head(arr)>> ELSE <<>>)
         \o Masked(Tail(arr), Tail(mask))

\* arr * c
Scaled(arr, c) == [i \in 1..Len(arr) |-> arr[i] * c]

\* a slip: the index read as 1-based, so that t[1] - t[0] reads one entry further
IndexErrorOneBased(arr, i) == i + 1 >= Len(arr)

\* arr[i] raises IndexError (0-based i >= 0)
IndexError(arr, i) == i >= Len(arr)

\* a slip: the grid built without its endpoint, one entry short
linspaceNoEndpoint(start, stop, num) ==
    [i \in 1..(num - 1) |-> start + ((i - 1) * (stop - start)) \div num]

\* np.linspace(start, stop, num), num >= 0
linspace(start, stop, num) ==
    [i \in 1..num |->
        IF num = 1 THEN start
        ELSE IF i = num THEN stop
        ELSE start + ((i - 1) * (stop - start)) \div (num - 1)]

(***************************************************************************)
(* Signal generation (lines 27-37)                                         *)
(***************************************************************************)
BasebandSignal(Em, wm, tt) ==
    [i \in 1..Len(tt) |-> Mul(Em, Sin(wm * tt[i]))]

CarrierSignal(Ec, wc, tt) ==
    [i \in 1..Len(tt) |-> Mul(Ec, Sin(wc * tt[i]))]

\* a slip: the envelope multiplied by the carrier signal, not by the unit sine
ModulatedSignalByCarrier(Ec, bb, wc, tt) ==
    [i \in 1..Len(tt) |-> (Ec + bb[i]) * Mul(Ec, Sin(wc * tt[i]))]

ModulatedSignal(Ec, bb, wc, tt) ==
    [i \in 1..Len(tt) |-> Mul(Ec + bb[i], Sin(wc * tt[i]))]

\* a slip: the baseband subtracted from the carrier amplitude
UpperEnvelopeMinus(Ec, bb) ==
    [i \in 1..Len(bb) |-> Ec - bb[i]]

UpperEnvelope(Ec, bb) ==
    [i \in 1..Len(bb) |-> Ec + bb[i]]

LowerEnvelope(Ec, bb) ==
    [i \in 1..Len(bb) |-> -(Ec + bb[i])]

(***************************************************************************)
(* Frequency spectrum (lines 121-127)                                      *)
(***************************************************************************)
\* fftfreq(n, d): the bins 0, 1, ..., (n-1)//2, -(n//2), ..., -1, each times
\* val = 1.0/(n*d)
fftfreq(n, d) ==
    [i \in 1..n |->
        [num |-> IF i - 1 <= (n - 1) \div 2 THEN i - 1 ELSE i - 1 - n,
         den |-> n * d]]

\* a slip: the slice one entry too long
FrequencyAxisOneMore(n, d) == Take(fftfreq(n, d), n \div 2 + 1)

FrequencyAxis(n, d) == Take(fftfreq(n, d), n \div 2)

\* one term x[n] * exp(-2*pi*j*k*n/len(x)) of the transform, its real or
\* imaginary part; the angle is rounded down to the angle grid
DftTerm(x, k, n, part) ==
    LET ang == (2 * Pi * k * n) \div Len(x)
    IN  IF part = "re" THEN Mul(x[n + 1], Cos(ang))
                       ELSE -Mul(x[n + 1], Sin(ang))

RECURSIVE DftSum(_, _, _, _)
DftSum(x, k, n, part) ==
    IF n >= Len(x) THEN 0
    ELSE DftTerm(x, k, n, part) + DftSum(x, k, n + 1, part)

fft(x) ==
    [i \in 1..Len(x) |->
        [re |-> DftSum(x, i - 1, 0, "re"), im |-> DftSum(x, i - 1, 0, "im")]]

\* np.abs of a complex number
CAbs(z) == Sqrt(z.re * z.re + z.im * z.im)

\* the textbook normalisation: the DC bin scaled by 1/N, the others by 2/N
MagnitudeTextbook(spec, n) ==
    LET half == Take(spec, n \div 2)
    IN  [k \in 1..Len(half) |->
            Mul(CAbs(half[k]), Div(IF k = 1 THEN 1 ELSE 2, n))]

\* (2.0 / N) * np.abs(modulated_fft[:N//2])
Magnitude(spec, n) ==
    LET half == Take(spec, n \div 2)
    IN  [k \in 1..Len(half) |-> Mul(CAbs(half[k]), Div(2, n))]

(***************************************************************************)
(* The run                                                                 *)
(***************************************************************************)
Start(Ems, Ecs, wms, wcs, durs, ns) ==
    /\ pc = "derive"
    /\ exc = "none"
    /\ E_m \in Ems /\ E_c \in Ecs
    /\ omega_m \in wms /\ omega_c \in wcs
    /\ duration \in durs /\ samples \in ns
    /\ bound = {"E_m", "E_c", "omega_m", "omega_c"}
    /\ f_m = 0 /\ f_c = 0 /\ modulation_index = 0
    /\ t = <<>> /\ baseband_signal = <<>> /\ carrier_signal = <<>>
    /\ modulated_signal = <<>>
    /\ upper_envelope = <<>> /\ lower_envelope = <<>>
    /\ zoom_mask = <<>>
    /\ N = 0 /\ T = 0 /\ frequencies = <<>>
    /\ modulated_fft = <<>> /\ modulated_magnitude = <<>>
    /\ figures = <<>> /\ console = <<>>

\* the parameters of the Signal Synthesizer's contract
Init ==
    Start(ValidE_m, ValidE_c, ValidOmega_m, ValidOmega_c,
          ValidDuration, ValidSamples)

\* any parameters, the non-positive ones included
InitAny ==
    Start(AnyE_m, AnyE_c, AnyOmega_m, AnyOmega_c, AnyDuration, AnySamples)

\* lines 14-16
DeriveScalars ==
    /\ pc = "derive"
    /\ f_m' = Div(omega_m, 2 * Pi)
    /\ f_c' = Div(omega_c, 2 * Pi)
    /\ IF E_c = 0
       THEN /\ pc' = "error"
            /\ exc' = "ZeroDivisionError"
            /\ bound' = bound \cup {"f_m", "f_c"}
            /\ UNCHANGED modulation_index
       ELSE /\ modulation_index' = Div(E_m, E_c)
            /\ pc' = "linspace"
            /\ bound' = bound \cup {"f_m", "f_c", "modulation_index"}
            /\ UNCHANGED exc
    /\ UNCHANGED <<params, signals, zoom_mask, spectrum, outputs>>

\* lines 19-21
TimeGrid ==
    /\ pc = "linspace"
    /\ IF samples < 0
       THEN /\ pc' = "error"
            /\ exc' = "ValueError"
            /\ bound' = bound \cup {"duration", "samples"}
            /\ UNCHANGED t
       ELSE /\ t' = linspace(0, duration, samples)
            /\ pc' = "baseband"
            /\ bound' = bound \cup {"duration", "samples", "t"}
            /\ UNCHANGED exc
    /\ UNCHANGED <<params, scalars, baseband_signal, carrier_signal,
                   modulated_signal, upper_envelope, lower_envelope,
                   zoom_mask, spectrum, outputs>>

\* line 27
Baseband ==
    /\ pc = "baseband"
    /\ baseband_signal' = BasebandSignal(E_m, omega_m, t)
    /\ pc' = "carrier"
    /\ bound' = bound \cup {"baseband_signal"}
    /\ UNCHANGED <<exc, params, scalars, t, carrier_signal, modulated_signal,
                   upper_envelope, lower_envelope, zoom_mask, spectrum,
                   outputs>>

\* line 30
Carrier ==
    /\ pc = "carrier"
    /\ carrier_signal' = CarrierSignal(E_c, omega_c, t)
    /\ pc' = "modulated"
    /\ bound' = bound \cup {"carrier_signal"}
    /\ UNCHANGED <<exc, params, scalars, t, baseband_signal, modulated_signal,
                   upper_envelope, lower_envelope, zoom_mask, spectrum,
                   outputs>>

\* line 33
Modulated ==
    /\ pc = "modulated"
    /\ modulated_signal' = ModulatedSignal(E_c, baseband_signal, omega_c, t)
    /\ pc' = "envelope"
    /\ bound' = bound \cup {"modulated_signal"}
    /\ UNCHANGED <<exc, params, scalars, t, baseband_signal, carrier_signal,
                   upper_envelope, lower_envelope, zoom_mask, spectrum,
                   outputs>>

\* lines 36-37
Envelope ==
    /\ pc = "envelope"
    /\ upper_envelope' = UpperEnvelope(E_c, baseband_signal)
    /\ lower_envelope' = LowerEnvelope(E_c, baseband_signal)
    /\ pc' = "plot1"
    /\ bound' = bound \cup {"upper_envelope", "lower_envelope"}
    /\ UNCHANGED <<exc, params, scalars, t, baseband_signal, carrier_signal,
                   modulated_signal, zoom_mask, spectrum, outputs>>

\* plt.plot(x, y)
Curve(x, y) == [x |-> x, y |-> y]

\* a slip: the time grid converted to milliseconds in place (t *= 1000)
Plot1InPlace ==
    /\ pc = "plot1"
    /\ t' = Scaled(t, 1000)
    /\ figures' = Append(figures,
          [name |-> "time domain",
           curves |-> << Curve(t', baseband_signal),
                         Curve(t', carrier_signal),
                         Curve(t', modulated_signal),
                         Curve(t', upper_envelope),
                         Curve(t', lower_envelope) >>,
           vlines |-> <<>>,
           labels |-> <<f_m, f_c, modulation_index>>])
    /\ pc' = "plot2"
    /\ UNCHANGED <<exc, bound, params, scalars, baseband_signal,
                   carrier_signal, modulated_signal, upper_envelope,
                   lower_envelope, zoom_mask, spectrum, console>>

\* lines 42-77: the figure of the three time-domain signals, shown
Plot1 ==
    /\ pc = "plot1"
    /\ figures' = Append(figures,
          [name |-> "time domain",
           curves |-> << Curve(Scaled(t, 1000), baseband_signal),
                         Curve(Scaled(t, 1000), carrier_signal),
                         Curve(Scaled(t, 1000), modulated_signal),
                         Curve(Scaled(t, 1000), upper_envelope),
                         Curve(Scaled(t, 1000), lower_envelope) >>,
           vlines |-> <<>>,
           labels |-> <<f_m, f_c, modulation_index>>])
    /\ pc' = "plot2"
    /\ UNCHANGED <<exc, bound, params, scalars, signals, zoom_mask, spectrum,
                   console>>

\* a slip: the spectrum figure placed before the spectrum is computed
AfterPlot2Skipping == "plot3"

\* the statement group that follows the zoomed figure (line 115 to line 121)
AfterPlot2 == "spectrum"

\* lines 83-115: the same signals restricted to t <= zoom_duration, shown
Plot2 ==
    /\ pc = "plot2"
    /\ zoom_mask' = [i \in 1..Len(t) |-> t[i] <= ZoomDuration]
    /\ figures' = Append(figures,
          [name |-> "zoomed view",
           curves |-> << Curve(Scaled(Masked(t, zoom_mask'), 1000),
                               Masked(baseband_signal, zoom_mask')),
                         Curve(Scaled(Masked(t, zoom_mask'), 1000),
                               Masked(carrier_signal, zoom_mask')),
                         Curve(Scaled(Masked(t, zoom_mask'), 1000),
                               Masked(modulated_signal, zoom_mask')),
                         Curve(Scaled(Masked(t, zoom_mask'), 1000),
                               Masked(upper_envelope, zoom_mask')),
                         Curve(Scaled(Masked(t, zoom_mask'), 1000),
                               Masked(lower_envelope, zoom_mask')) >>,
           vlines |-> <<>>,
           labels |-> <<>>])
    /\ pc' = AfterPlot2
    /\ bound' = bound \cup {"zoom_duration", "zoom_mask"}
    /\ UNCHANGED <<exc, params, scalars, signals, spectrum, console>>

\* lines 121-127: N, T, the frequency axis, the transform and its magnitude
SpectrumAnalysis ==
    /\ pc = "spectrum"
    /\ N' = Len(t)
    /\ IF IndexError(t, 1) \/ IndexError(t, 0)
       THEN /\ pc' = "error"
            /\ exc' = "IndexError"
            /\ bound' = bound \cup {"N"}
            /\ UNCHANGED <<T, frequencies, modulated_fft, modulated_magnitude>>
       ELSE /\ T' = t[2] - t[1]
            /\ frequencies' = FrequencyAxis(N', T')
            /\ modulated_fft' = fft(modulated_signal)
            /\ modulated_magnitude' = Magnitude(modulated_fft', N')
            /\ pc' = "plot3"
            /\ bound' = bound \cup {"N", "T", "frequencies", "modulated_fft",
                                    "modulated_magnitude"}
            /\ UNCHANGED exc
    /\ UNCHANGED <<params, scalars, signals, zoom_mask, outputs>>

\* lines 129-149: the spectrum figure with the carrier and sideband marks, shown
Plot3 ==
    /\ pc = "plot3"
    /\ figures' = Append(figures,
          [name |-> "spectrum",
           curves |-> << Curve(frequencies, modulated_magnitude) >>,
           vlines |-> <<f_c, f_c + f_m, f_c - f_m>>,
           labels |-> <<f_c, f_c + f_m, f_c - f_m>>])
    /\ pc' = "summary"
    /\ UNCHANGED <<exc, bound, params, scalars, signals, zoom_mask, spectrum,
                   console>>

\* lines 154-168: the printed lines, each its text and the value formatted in
PrintSummary ==
    /\ pc = "summary"
    /\ console' = console \o
          << <<"rule", 0>>,
             <<"AM MODULATION ANALYSIS RESULTS", 0>>,
             <<"rule", 0>>,
             <<"Baseband Signal Frequency: f_m", f_m>>,
             <<"Carrier Wave Frequency: f_c", f_c>>,
             <<"Modulation Index: m", modulation_index>>,
             <<"Signal Equations:", 0>>,
             <<"Baseband: e_m(t) = 100 sin(200t)", 0>>,
             <<"Carrier: e_c(t) = 150 sin(3000t)", 0>>,
             <<"Modulated: e_AM(t) = [150 + 100 sin(200t)] sin(3000t)", 0>>,
             <<"Frequency Components:", 0>>,
             <<"Carrier", f_c>>,
             <<"Upper Sideband", f_c + f_m>>,
             <<"Lower Sideband", f_c - f_m>>,
             <<"rule", 0>> >>
    /\ pc' = "done"
    /\ UNCHANGED <<exc, bound, params, scalars, signals, zoom_mask, spectrum,
                   figures>>

Next ==
    \/ DeriveScalars
    \/ TimeGrid
    \/ Baseband
    \/ Carrier
    \/ Modulated
    \/ Envelope
    \/ Plot1
    \/ Plot2
    \/ SpectrumAnalysis
    \/ Plot3
    \/ PrintSummary

Spec == Init /\ [][Next]_vars

SpecAny == InitAny /\ [][Next]_vars

(***************************************************************************)
(* Properties                                                              *)
(***************************************************************************)
Indices(arr) == 1..Len(arr)

SignalArrays ==
    {"baseband_signal", "carrier_signal", "modulated_signal",
     "upper_envelope", "lower_envelope"}

SpectrumArrays == {"frequencies", "modulated_magnitude"}

InvalidInput ==
    \/ samples <= 0 \/ duration <= 0
    \/ E_m <= 0 \/ E_c <= 0
    \/ omega_m <= 0 \/ omega_c <= 0

\* C1: a run whose sample count, duration, amplitude or angular frequency is
\* non-positive fails before it produces any signal array.
C1_InvalidInputFailsFast ==
    InvalidInput => (bound \cap SignalArrays = {} /\ pc # "done")

\* C2 as stated: the Spectral Analyzer step fails for N = 0 only; for every
\* N >= 1 it completes without error.
C2_AnalyzerFailsOnlyForZero ==
    [][pc = "spectrum" =>
         IF Len(t) = 0 THEN pc' = "error" /\ exc' # "none"
                       ELSE pc' = "plot3" /\ exc' = "none"]_vars

\* C2 as amended: the Spectral Analyzer step fails for N = 0 and for N = 1,
\* with the IndexError of reading t[1], and produces nothing; for every
\* N >= 2 (samples = 2 included) it completes without error and produces the
\* frequency axis and the magnitude spectrum.
C2_AnalyzerFailsBelowTwo ==
    [][pc = "spectrum" =>
         IF Len(t) < 2
         THEN /\ pc' = "error" /\ exc' = "IndexError"
              /\ bound' \cap SpectrumArrays = {}
         ELSE /\ pc' = "plot3" /\ exc' = "none"
              /\ SpectrumArrays \subseteq bound'
              /\ Len(frequencies') = Len(t) \div 2]_vars

\* the analyzer has failed on a one-sample time grid
C2_Witness ==
    pc = "error" /\ exc = "IndexError" /\ samples = 1 /\ N = 1

\* the texts of a line that flags over-modulation
WarningTexts == {"OverModulation", "Warning: over-modulation"}

\* C3: a run whose modulation index is above 1 flags over-modulation as a
\* warning, and still completes.
C3_OverModulationFlagged ==
    (pc = "done" /\ modulation_index > Unit) =>
        \E i \in Indices(console) : console[i][1] \in WarningTexts

\* C4 as stated: no presentation action (a figure shown, a line printed)
\* happens before the Spectral Analyzer has produced the frequency axis and
\* the magnitude spectrum.
C4_NoPresentationBeforeAnalysis ==
    (figures # <<>> \/ console # <<>>) => SpectrumArrays \subseteq bound

\* C4 as amended: no presentation action happens before the Signal
\* Synthesizer has produced all its arrays; the time-domain figure and the
\* zoomed figure are shown before the Spectral Analyzer runs; the spectrum
\* figure and the console summary come only after the Spectral Analyzer has
\* produced the frequency axis and the magnitude spectrum.
C4_StagesAsCoded ==
    /\ (figures # <<>> \/ console # <<>>) =>
           (SignalArrays \cup {"t"}) \subseteq bound
    /\ (SpectrumArrays \cap bound # {}) =>
           /\ Len(figures) >= 2
           /\ figures[1].name = "time domain"
           /\ figures[2].name = "zoomed view"
    /\ ((\E i \in Indices(figures) : figures[i].name = "spectrum")
            \/ console # <<>>) =>
           SpectrumArrays \subseteq bound

\* both time-domain figures are on screen and the analyzer has not run yet
C4_Witness ==
    pc = "spectrum" /\ Len(figures) = 2 /\ SpectrumArrays \cap bound = {}

\* C5 as stated: if E_c >= max(baseband) then upper[i] >= 0 for every i.
C5_UpperNonNegAboveMax ==
    ("upper_envelope" \in bound
        /\ \A i \in Indices(baseband_signal) : E_c >= baseband_signal[i])
    => \A i \in Indices(upper_envelope) : upper_envelope[i] >= 0

\* C5 as amended: if E_c >= max over i of -baseband[i] (E_c >= -min(baseband))
\* then upper[i] >= 0 for every i.
C5_UpperNonNegAboveNegMin ==
    ("upper_envelope" \in bound
        /\ \A i \in Indices(baseband_signal) : E_c >= -baseband_signal[i])
    => \A i \in Indices(upper_envelope) : upper_envelope[i] >= 0

\* the envelope of a baseband that goes negative, within the carrier amplitude
C5_Witness ==
    /\ "upper_envelope" \in bound
    /\ \E i \in Indices(baseband_signal) : baseband_signal[i] < 0
    /\ \A i \in Indices(baseband_signal) : E_c >= -baseband_signal[i]

\* C6: the time grid, the baseband, carrier and modulated sequences and both
\* envelopes have exactly N = samples entries each, and entry i of each is
\* computed from t[i].
C6_LengthsAligned ==
    /\ "t" \in bound => Len(t) = samples
    /\ "baseband_signal" \in bound =>
          /\ Len(baseband_signal) = samples
          /\ \A i \in 1..samples :
                baseband_signal[i] = Mul(E_m, Sin(omega_m * t[i]))
    /\ "carrier_signal" \in bound =>
          /\ Len(carrier_signal) = samples
          /\ \A i \in 1..samples :
                carrier_signal[i] = Mul(E_c, Sin(omega_c * t[i]))
    /\ "modulated_signal" \in bound =>
          /\ Len(modulated_signal) = samples
          /\ \A i \in 1..samples :
                modulated_signal[i] =
                    Mul(E_c + baseband_signal[i], Sin(omega_c * t[i]))
    /\ "upper_envelope" \in bound =>
          /\ Len(upper_envelope) = samples
          /\ Len(lower_envelope) = samples
          /\ \A i \in 1..samples :
                /\ upper_envelope[i] = E_c + Mul(E_m, Sin(omega_m * t[i]))
                /\ lower_envelope[i] = -upper_envelope[i]

\* all six sequences exist, on a grid of at least three samples
C6_Witness ==
    pc = "plot1" /\ samples >= 3 /\ (SignalArrays \cup {"t"}) \subseteq bound

\* C7: for every N >= 2 the frequency axis has exactly N \div 2 entries,
\* frequencies[k] = k / (N*T) with T = t[1] - t[0], every entry is
\* non-negative, frequencies[0] = 0 and the axis is strictly increasing.
C7_FrequencyAxis ==
    "frequencies" \in bound =>
        /\ N = samples /\ T = t[2] - t[1]
        /\ Len(frequencies) = N \div 2
        /\ \A i \in Indices(frequencies) :
              /\ frequencies[i].den = N * T
              /\ frequencies[i].num = i - 1
              /\ frequencies[i].den > 0
              /\ frequencies[i].num >= 0
        /\ frequencies[1].num = 0
        /\ \A i \in Indices(frequencies) : \A j \in Indices(frequencies) :
              i < j => frequencies[i].num * frequencies[j].den
                         < frequencies[j].num * frequencies[i].den

\* the axis of an odd number of samples, with more than one entry
C7_Witness ==
    "frequencies" \in bound /\ N % 2 = 1 /\ Len(frequencies) >= 2

\* C8: the magnitude spectrum has exactly N \div 2 entries, as many as the
\* frequency axis, every entry is non-negative, and magnitude[k] is
\* (2/N) * |DFT(modulated)[k]| for every bin k, the DC bin included.
C8_MagnitudeSpectrum ==
    "modulated_magnitude" \in bound =>
        /\ Len(modulated_magnitude) = N \div 2
        /\ Len(modulated_magnitude) = Len(frequencies)
        /\ \A k \in Indices(modulated_magnitude) :
              /\ modulated_magnitude[k] >= 0
              /\ modulated_magnitude[k] =
                    Mul(CAbs(fft(modulated_signal)[k]), Div(2, N))

\* a spectrum whose DC bin is not zero
C8_Witness ==
    "modulated_magnitude" \in bound /\ modulated_magnitude[1] > 0

\* C9: once computed, an array is never changed, in contents or in length,
\* by any later step, and is never computed again.
C9_ArraysNeverChange ==
    [][/\ "t" \in bound => t' = t /\ "t" \in bound'
       /\ "baseband_signal" \in bound =>
             baseband_signal' = baseband_signal /\ "baseband_signal" \in bound'
       /\ "carrier_signal" \in bound =>
             carrier_signal' = carrier_signal /\ "carrier_signal" \in bound'
       /\ "modulated_signal" \in bound =>
             modulated_signal' = modulated_signal
                 /\ "modulated_signal" \in bound'
       /\ "upper_envelope" \in bound =>
             upper_envelope' = upper_envelope /\ "upper_envelope" \in bound'
       /\ "lower_envelope" \in bound =>
             lower_envelope' = lower_envelope /\ "lower_envelope" \in bound'
       /\ "frequencies" \in bound =>
             frequencies' = frequencies /\ "frequencies" \in bound'
       /\ "modulated_magnitude" \in bound =>
             modulated_magnitude' = modulated_magnitude
                 /\ "modulated_magnitude" \in bound'
      ]_vars

\* the run has ended with all three figures shown and the summary printed,
\* the first figure holding the time grid in milliseconds
C9_Witness ==
    /\ pc = "done" /\ Len(figures) = 3 /\ console # <<>>
    /\ figures[1].curves[1].x = Scaled(t, 1000)
    /\ t[Len(t)] = duration

\* lower[i] <= modulated[i] <= upper[i]
Within(i) ==
    /\ lower_envelope[i] <= modulated_signal[i]
    /\ modulated_signal[i] <= upper_envelope[i]

\* C10: |modulated[i]| <= |upper[i]| for every i; when the modulation index
\* is at most 1, lower[i] <= modulated[i] <= upper[i] for every i, with
\* lower[i] = -upper[i]; the ordered bound fails only where upper[i] < 0,
\* which needs a modulation index above 1.
C10_EnvelopeBounds ==
    "upper_envelope" \in bound =>
        \A i \in Indices(modulated_signal) :
            /\ Abs(modulated_signal[i]) <= Abs(upper_envelope[i])
            /\ lower_envelope[i] = -upper_envelope[i]
            /\ modulation_index <= Unit => Within(i)
            /\ ~Within(i) => (upper_envelope[i] < 0 /\ modulation_index > Unit)

\* a modulated sample strictly inside a positive envelope, the modulation
\* index at most 1
C10_Witness ==
    /\ "upper_envelope" \in bound /\ modulation_index <= Unit
    /\ \E i \in Indices(modulated_signal) :
          /\ modulated_signal[i] # 0
          /\ Abs(modulated_signal[i]) < upper_envelope[i]

====
